---- MODULE Spec2Model ----
(***************************************************************************)
(* QuantumSpace Research Platform API (backend/server.py).                 *)
(*                                                                         *)
(* The research collection is a sequence of documents in insertion order   *)
(* (MongoDB keeps one document per insert, whatever its "id" field holds). *)
(* Every route is a coroutine that suspends only at its data-layer or LLM  *)
(* call, so a route with one such call is one atomic step at that call;    *)
(* get_research_stats (five calls), startup_event (two calls) and          *)
(* chat_with_ai (send, then the provider's answer) take one step per call. *)
(* A data-layer call either returns or raises; a call that raises has no   *)
(* effect on the collection.  uuid.uuid4() is modelled as a generator of   *)
(* identifiers that were never issued before (collisions of 122 random     *)
(* bits are not modelled).  created_at is not modelled: no route reads it. *)
(***************************************************************************)
EXTENDS Integers, Sequences, FiniteSets, Bags, TLC

VARIABLES
    store,          \* db.research: sequence of documents
    uuidCount,      \* number of uuid4() values issued so far
    pc,             \* per server process: "init", "insert", "serving"
    existing_count, \* per server process: startup_event's local
    seedResult,     \* per server process: how startup_event ended
    stats,          \* the in-flight get_research_stats request
    asks,           \* the in-flight chat_with_ai requests
    llmLog,         \* what the LLM provider has been sent, in order
    resp,           \* the last HTTP response
    nreq,           \* number of HTTP requests accepted so far
    added,          \* records returned by successful Adds
    everIds,        \* ids of every document ever stored
    okDeletes,      \* bag of ids a Delete confirmed
    statsWatch      \* the last Stats request begun, and whether a write followed

vars == <<store, uuidCount, pc, existing_count, seedResult, stats, asks,
          llmLog, resp, nreq, added, everIds, okDeletes, statsWatch>>

storeVars == <<store, uuidCount, added, everIds, okDeletes, statsWatch>>
serverVars == <<pc, existing_count, seedResult>>
chatVars == <<asks, llmLog>>

(* ------------------------------ bounds -------------------------------- *)

\* HTTP requests accepted in one run
MaxReq == 3
\* server processes started against the same database
NumServers == 1
\* chat requests in flight at once
MaxInflight == 2
\* server processes whose startups race on one empty collection
NumRacers == 2

Servers == 1..NumServers
Slots == 1..MaxInflight
Racers == 1..NumRacers

(* ------------------------------ inputs -------------------------------- *)

\* request bodies of POST /api/research; category is an open string
ResearchItems ==
    { [title |-> "T", category |-> "ai", description |-> "D", findings |-> "F"],
      [title |-> "T2", category |-> "biology", description |-> "D2", findings |-> "F2"] }

\* request bodies of POST /api/chat
Messages == {"hello", "Explain quantum entanglement in simple terms"}

\* texts the LLM provider may answer
Replies == {"reply-a", "reply-b"}

\* outcomes of one data-layer call
DbOutcomes == {"ok", "raise"}
\* insert_one may also return a result without inserted_id
InsertOutcomes == {"ok", "raise", "unconfirmed"}

(* ---------------------------- exceptions ------------------------------ *)

\* what the data layer or the LLM client raises
UpstreamError == [type |-> "Exception", status_code |-> 0, detail |-> <<"upstream failure">>]

HTTPException(status_code, detail) ==
    [type |-> "HTTPException", status_code |-> status_code, detail |-> detail]

\* FastAPI turns a raised HTTPException into the response
ErrorResponse(exc) == [status |-> exc.status_code, body |-> [detail |-> exc.detail]]

OkResponse(body) == [status |-> 200, body |-> body]

(* ---------------------------- data layer ------------------------------ *)

\* a filter is a set of <<field, value>> pairs; {} matches every document
Matches(doc, filter) == \A kv \in filter : doc[kv[1]] = kv[2]

count_documents_known_only(coll, filter) ==
    Cardinality({i \in DOMAIN coll :
        /\ Matches(coll[i], filter)
        /\ coll[i].category \in {"space", "quantum", "ai", "database"}})

count_documents_unfiltered(coll, filter) == Len(coll)

count_documents(coll, filter) ==
    Cardinality({i \in DOMAIN coll : Matches(coll[i], filter)})

insert_one(coll, doc) == Append(coll, doc)

insert_many(coll, docs) == coll \o docs

delete_one_removing_nothing(coll, filter) ==
    [coll |-> coll,
     deleted_count |-> IF \E i \in DOMAIN coll : Matches(coll[i], filter) THEN 1 ELSE 0]

delete_one(coll, filter) ==
    IF \E i \in DOMAIN coll : Matches(coll[i], filter)
    THEN LET k == CHOOSE i \in DOMAIN coll :
                      /\ Matches(coll[i], filter)
                      /\ \A j \in DOMAIN coll : j < i => ~Matches(coll[j], filter)
         IN [coll |-> [i \in 1..(Len(coll) - 1) |-> IF i < k THEN coll[i] ELSE coll[i + 1]],
             deleted_count |-> 1]
    ELSE [coll |-> coll, deleted_count |-> 0]

find(coll) == coll

uuid4_constant(k) == 1

\* the (k+1)-th identifier uuid.uuid4() returns from now on
uuid4(k) == uuidCount + k + 1

IdsOf(coll) == {coll[i].id : i \in DOMAIN coll}

(* ------------------------------ routes -------------------------------- *)

ResearchResponse(item) ==
    [id |-> item.id, title |-> item.title, category |-> item.category,
     description |-> item.description, findings |-> item.findings]

research_doc_swapped(research_id, research) ==
    [id |-> research_id, title |-> research.title, category |-> research.category,
     description |-> research.findings, findings |-> research.description]

research_doc(research_id, research) ==
    [id |-> research_id, title |-> research.title, category |-> research.category,
     description |-> research.description, findings |-> research.findings]

\* get_research_data's except clause
list_except(exc) ==
    ErrorResponse(HTTPException(500, <<"Error fetching research data: ", exc.detail>>))

\* GET /api/research
get_research_data(coll, outcome) ==
    IF outcome = "raise"
    THEN [calls |-> 1, response |-> list_except(UpstreamError)]
    ELSE [calls |-> 1,
          response |-> OkResponse(
              [i \in DOMAIN find(coll) |-> ResearchResponse(find(coll)[i])])]

add_except_swallow(exc) == OkResponse([detail |-> exc.detail])

\* add_research_data's "except Exception" clause: it also catches the
\* HTTPException raised in the try block
add_except(exc) ==
    ErrorResponse(HTTPException(500, <<"Error adding research data: ", exc.detail>>))

\* POST /api/research
add_research_data(coll, research, outcome) ==
    LET research_id == uuid4(0)
        doc == research_doc(research_id, research)
    IN CASE outcome = "raise" ->
              [coll |-> coll, calls |-> 1, response |-> add_except(UpstreamError)]
         [] outcome = "unconfirmed" ->
              [coll |-> coll, calls |-> 1,
               response |-> add_except(HTTPException(500, <<"Failed to insert research data">>))]
         [] OTHER ->
              [coll |-> insert_one(coll, doc), calls |-> 1,
               response |-> OkResponse(
                   [id |-> research_id, title |-> research.title,
                    category |-> research.category,
                    description |-> research.description,
                    findings |-> research.findings])]

delete_except_generic(exc) ==
    ErrorResponse(HTTPException(500, <<"Error deleting research data: ", exc.detail>>))

\* delete_research_data's two except clauses
delete_except(exc) ==
    IF exc.type = "HTTPException"
    THEN ErrorResponse(exc)
    ELSE ErrorResponse(HTTPException(500, <<"Error deleting research data: ", exc.detail>>))

\* DELETE /api/research/{research_id}
delete_research_data(coll, research_id, outcome) ==
    LET result == delete_one(coll, {<<"id", research_id>>})
    IN CASE outcome = "raise" ->
              [coll |-> coll, calls |-> 1, response |-> delete_except(UpstreamError)]
         [] result.deleted_count = 0 ->
              [coll |-> result.coll, calls |-> 1,
               response |-> delete_except(HTTPException(404, <<"Research item not found">>))]
         [] OTHER ->
              [coll |-> result.coll, calls |-> 1,
               response |-> OkResponse([message |-> "Research item deleted successfully",
                                        id |-> research_id])]

get_research_categories_from_store ==
    OkResponse([categories |->
        [i \in DOMAIN store |-> [id |-> store[i].category, name |-> store[i].title,
                                 description |-> store[i].description]]])

\* GET /api/research/categories
get_research_categories ==
    OkResponse([categories |-> <<
        [id |-> "space", name |-> "Space Research",
         description |-> "Space exploration and satellite technology"],
        [id |-> "quantum", name |-> "Quantum Theory",
         description |-> "Quantum computing and quantum mechanics"],
        [id |-> "ai", name |-> "AI Programming",
         description |-> "Artificial intelligence and machine learning"],
        [id |-> "database", name |-> "Database Technology",
         description |-> "Data management and analytics"] >>])

\* the filters of get_research_stats's five count queries, in order
StatsFilters ==
    << {}, {<<"category", "space">>}, {<<"category", "quantum">>},
       {<<"category", "ai">>}, {<<"category", "database">>} >>

\* get_research_stats's except clause
stats_except(exc) ==
    ErrorResponse(HTTPException(500, <<"Error fetching research statistics: ", exc.detail>>))

\* the body get_research_stats returns from its five counts
stats_body(counts) ==
    [total_research |-> counts[1],
     categories |-> [space |-> counts[2], quantum |-> counts[3],
                     ai |-> counts[4], database |-> counts[5]]]

sample_data_three ==
    << [id |-> uuid4(0), title |-> "Mars Rover Autonomous Navigation System",
        category |-> "space", description |-> "sample description 1",
        findings |-> "sample findings 1"],
       [id |-> uuid4(1), title |-> "Quantum Entanglement Communication Protocol",
        category |-> "quantum", description |-> "sample description 2",
        findings |-> "sample findings 2"],
       [id |-> uuid4(2), title |-> "AI-Powered Astronomical Data Analysis",
        category |-> "ai", description |-> "sample description 3",
        findings |-> "sample findings 3"] >>

\* startup_event's sample_data (descriptions and findings abbreviated)
sample_data ==
    << [id |-> uuid4(0), title |-> "Mars Rover Autonomous Navigation System",
        category |-> "space", description |-> "sample description 1",
        findings |-> "sample findings 1"],
       [id |-> uuid4(1), title |-> "Quantum Entanglement Communication Protocol",
        category |-> "quantum", description |-> "sample description 2",
        findings |-> "sample findings 2"],
       [id |-> uuid4(2), title |-> "AI-Powered Astronomical Data Analysis",
        category |-> "ai", description |-> "sample description 3",
        findings |-> "sample findings 3"],
       [id |-> uuid4(3), title |-> "Distributed Space Mission Database Architecture",
        category |-> "database", description |-> "sample description 4",
        findings |-> "sample findings 4"] >>

\* get_llm_chat's system_message (abbreviated)
SystemMessage == "You are an advanced AI assistant specialized in space research, quantum theory, and AI programming."

get_llm_chat_reused ==
    [session_id |-> "quantumspace-chat",
     model |-> <<"openai", "gpt-4o-mini">>,
     messages |-> IF llmLog = <<>>
                  THEN << [role |-> "system", content |-> SystemMessage] >>
                  ELSE llmLog[Len(llmLog)].messages]

\* a new LlmChat: its conversation holds the system message only
get_llm_chat ==
    [session_id |-> "quantumspace-chat",
     model |-> <<"openai", "gpt-4o-mini">>,
     messages |-> << [role |-> "system", content |-> SystemMessage] >>]

UserMessage(text) == [role |-> "user", content |-> text]

\* chat_with_ai's except clause
chat_except(exc) ==
    ErrorResponse(HTTPException(500, <<"Error processing chat message: ", exc.detail>>))

ChatResponse(response) == [response |-> response]

(* ------------------------------- state -------------------------------- *)

IdleStats == [active |-> FALSE, n |-> 0, counts |-> <<>>]
IdleAsk == [active |-> FALSE, n |-> 0, message |-> "", messages |-> <<>>]

\* the database outlives the server processes: a process starts against an
\* empty collection or against what an earlier run left behind
InitialCollections ==
    { <<>>,
      << [id |-> 1, title |-> "Left by an earlier run", category |-> "biology",
          description |-> "D0", findings |-> "F0"] >> }

Init ==
    /\ store \in InitialCollections
    /\ uuidCount = Len(store)
    /\ pc = [s \in Servers |-> "init"]
    /\ existing_count = [s \in Servers |-> 0]
    /\ seedResult = [s \in Servers |-> "none"]
    /\ stats = IdleStats
    /\ asks = [k \in Slots |-> IdleAsk]
    /\ llmLog = <<>>
    /\ resp = [n |-> 0, op |-> "none", req |-> "none", status |-> 0,
               body |-> [detail |-> <<>>], upstream |-> "none", calls |-> 0]
    /\ nreq = 0
    /\ added = {}
    /\ everIds = IdsOf(store)
    /\ okDeletes = EmptyBag
    /\ statsWatch = [n |-> 0, dirty |-> FALSE]

\* uvicorn serves requests once a process's startup_event has returned
CanServe == nreq < MaxReq /\ \E s \in DOMAIN pc : pc[s] = "serving"

Respond(n, op, req, response, upstream, calls) ==
    resp' = [n |-> n, op |-> op, req |-> req, status |-> response.status,
             body |-> response.body, upstream |-> upstream, calls |-> calls]

\* a write to the collection: the history the claims read
Wrote(coll) ==
    /\ store' = coll
    /\ everIds' = everIds \cup IdsOf(coll)
    /\ statsWatch' = [statsWatch EXCEPT !.dirty = (@ \/ coll # store)]

(* ------------------------------ startup ------------------------------- *)

\* startup_event, up to and including count_documents({})
StartupCount(s, outcome) ==
    /\ pc[s] = "init"
    /\ IF outcome = "raise"
       THEN /\ pc' = [pc EXCEPT ![s] = "serving"]
            /\ seedResult' = [seedResult EXCEPT ![s] = "error"]
            /\ UNCHANGED existing_count
       ELSE /\ existing_count' = [existing_count EXCEPT ![s] = count_documents(store, {})]
            /\ IF existing_count'[s] = 0
               THEN /\ pc' = [pc EXCEPT ![s] = "insert"]
                    /\ UNCHANGED seedResult
               ELSE /\ pc' = [pc EXCEPT ![s] = "serving"]
                    /\ seedResult' = [seedResult EXCEPT ![s] = "skipped"]
    /\ UNCHANGED <<storeVars, stats, chatVars, resp, nreq>>

\* startup_event from building sample_data to its end
StartupInsert(s, outcome) ==
    /\ pc[s] = "insert"
    /\ pc' = [pc EXCEPT ![s] = "serving"]
    /\ uuidCount' = uuidCount + Len(sample_data)
    /\ IF outcome = "raise"
       THEN /\ seedResult' = [seedResult EXCEPT ![s] = "error"]
            /\ Wrote(store)
       ELSE /\ seedResult' = [seedResult EXCEPT ![s] = "inserted"]
            /\ Wrote(insert_many(store, sample_data))
    /\ UNCHANGED <<existing_count, stats, chatVars, resp, nreq, added, okDeletes>>

(* ------------------------------ requests ------------------------------ *)

List(outcome) ==
    /\ CanServe
    /\ nreq' = nreq + 1
    /\ LET r == get_research_data(store, outcome)
       IN Respond(nreq + 1, "list", "none", r.response, outcome, r.calls)
    /\ UNCHANGED <<storeVars, serverVars, stats, chatVars>>

Add(research, outcome) ==
    /\ CanServe
    /\ nreq' = nreq + 1
    /\ uuidCount' = uuidCount + 1
    /\ LET r == add_research_data(store, research, outcome)
       IN /\ Wrote(r.coll)
          /\ Respond(nreq + 1, "add", research, r.response, outcome, r.calls)
          /\ added' = IF r.response.status = 200
                      THEN added \cup {r.response.body}
                      ELSE added
    /\ UNCHANGED <<serverVars, stats, chatVars, okDeletes>>

Delete(research_id, outcome) ==
    /\ CanServe
    /\ nreq' = nreq + 1
    /\ LET r == delete_research_data(store, research_id, outcome)
       IN /\ Wrote(r.coll)
          /\ Respond(nreq + 1, "delete", research_id, r.response, outcome, r.calls)
          /\ okDeletes' = IF r.response.status = 200
                          THEN okDeletes (+) SetToBag({research_id})
                          ELSE okDeletes
    /\ UNCHANGED <<uuidCount, serverVars, stats, chatVars, added>>

Categories ==
    /\ CanServe
    /\ nreq' = nreq + 1
    /\ Respond(nreq + 1, "categories", "none", get_research_categories, "none", 0)
    /\ UNCHANGED <<storeVars, serverVars, stats, chatVars>>

\* get_research_stats: the request arrives and the k-th count query runs
\* (k = 1 on arrival); the fifth returns the response
StatsCount(outcome) ==
    /\ IF stats.active THEN TRUE ELSE CanServe
    /\ LET n == IF stats.active THEN stats.n ELSE nreq + 1
           done == IF stats.active THEN stats.counts ELSE <<>>
           k == Len(done) + 1
           counts == Append(done, count_documents(store, StatsFilters[k]))
       IN /\ nreq' = IF stats.active THEN nreq ELSE nreq + 1
          /\ statsWatch' = IF stats.active THEN statsWatch
                           ELSE [n |-> n, dirty |-> FALSE]
          /\ IF outcome = "raise"
             THEN /\ stats' = IdleStats
                  /\ Respond(n, "stats", "none", stats_except(UpstreamError), outcome, k)
             ELSE IF k = Len(StatsFilters)
                  THEN /\ stats' = IdleStats
                       /\ Respond(n, "stats", "none", OkResponse(stats_body(counts)), outcome, k)
                  ELSE /\ stats' = [active |-> TRUE, n |-> n, counts |-> counts]
                       /\ UNCHANGED resp
    /\ UNCHANGED <<store, uuidCount, added, everIds, okDeletes, serverVars, chatVars>>

(* -------------------------------- chat -------------------------------- *)

\* chat_with_ai up to the await: a chat is built and the message is sent
AskSend(slot, message) ==
    /\ CanServe
    /\ ~asks[slot].active
    /\ nreq' = nreq + 1
    /\ LET chat == get_llm_chat
           messages == Append(chat.messages, UserMessage(message))
       IN /\ asks' = [asks EXCEPT ![slot] =
                        [active |-> TRUE, n |-> nreq + 1, message |-> message,
                         messages |-> messages]]
          /\ llmLog' = Append(llmLog, [n |-> nreq + 1, session_id |-> chat.session_id,
                                        messages |-> messages])
    /\ UNCHANGED <<storeVars, serverVars, stats, resp>>

\* send_message returns the provider's text
AskReply(slot, response) ==
    /\ asks[slot].active
    /\ asks' = [asks EXCEPT ![slot] = IdleAsk]
    /\ Respond(asks[slot].n, "chat", asks[slot].message,
               OkResponse(ChatResponse(response)), response, 1)
    /\ UNCHANGED <<storeVars, serverVars, stats, llmLog, nreq>>

\* send_message raises
AskRaise(slot) ==
    /\ asks[slot].active
    /\ asks' = [asks EXCEPT ![slot] = IdleAsk]
    /\ Respond(asks[slot].n, "chat", asks[slot].message,
               chat_except(UpstreamError), "raise", 1)
    /\ UNCHANGED <<storeVars, serverVars, stats, llmLog, nreq>>

(* ---------------------------- specification --------------------------- *)

\* ids a client may name: 0, which is never issued, the ids Add returned,
\* and, as the test client does, the first id of the List response it holds
ClientIds ==
    {0} \cup {r.id : r \in added}
        \cup (IF resp.op = "list" /\ resp.status = 200 /\ Len(resp.body) > 0
              THEN {resp.body[1].id} ELSE {})

\* the research store: startup seeding and the /api/research routes
Next ==
    \/ \E s \in Servers, o \in DbOutcomes : StartupCount(s, o)
    \/ \E s \in Servers, o \in DbOutcomes : StartupInsert(s, o)
    \/ \E o \in DbOutcomes : List(o)
    \/ \E research \in ResearchItems, o \in InsertOutcomes : Add(research, o)
    \/ \E research_id \in ClientIds, o \in DbOutcomes : Delete(research_id, o)
    \/ Categories
    \/ \E o \in DbOutcomes : StatsCount(o)

Spec == Init /\ [][Next]_vars

\* the chat relay: it shares no state with the store, so it is explored apart
ChatNext ==
    \/ \E s \in Servers, o \in DbOutcomes : StartupCount(s, o)
    \/ \E s \in Servers, o \in DbOutcomes : StartupInsert(s, o)
    \/ \E k \in Slots, m \in Messages : AskSend(k, m)
    \/ \E k \in Slots, r \in Replies : AskReply(k, r)
    \/ \E k \in Slots : AskRaise(k)

ChatSpec == Init /\ [][ChatNext]_vars

\* every route together, for the claims that span the store and the relay;
\* the request bodies are narrowed to one of each, the outcomes are not
FaultNext ==
    \/ \E s \in Servers, o \in DbOutcomes : StartupCount(s, o)
    \/ \E s \in Servers, o \in DbOutcomes : StartupInsert(s, o)
    \/ \E o \in DbOutcomes : List(o)
    \/ \E o \in InsertOutcomes :
           Add([title |-> "T", category |-> "ai", description |-> "D", findings |-> "F"], o)
    \/ \E research_id \in ClientIds, o \in DbOutcomes : Delete(research_id, o)
    \/ Categories
    \/ \E o \in DbOutcomes : StatsCount(o)
    \/ AskSend(1, "hello")
    \/ AskReply(1, "reply-a")
    \/ AskRaise(1)

FaultSpec == Init /\ [][FaultNext]_vars

\* several server processes (uvicorn workers, replicas) start against the
\* same empty collection; the ones already serving accept Add requests
RaceInit ==
    /\ store = <<>>
    /\ uuidCount = 0
    /\ pc = [s \in Racers |-> "init"]
    /\ existing_count = [s \in Racers |-> 0]
    /\ seedResult = [s \in Racers |-> "none"]
    /\ stats = IdleStats
    /\ asks = [k \in Slots |-> IdleAsk]
    /\ llmLog = <<>>
    /\ resp = [n |-> 0, op |-> "none", req |-> "none", status |-> 0,
               body |-> [detail |-> <<>>], upstream |-> "none", calls |-> 0]
    /\ nreq = 0
    /\ added = {}
    /\ everIds = {}
    /\ okDeletes = EmptyBag
    /\ statsWatch = [n |-> 0, dirty |-> FALSE]

RaceNext ==
    \/ \E s \in Racers, o \in DbOutcomes : StartupCount(s, o)
    \/ \E s \in Racers, o \in DbOutcomes : StartupInsert(s, o)
    \/ \E research \in ResearchItems, o \in InsertOutcomes : Add(research, o)

RaceSpec == RaceInit /\ [][RaceNext]_vars

(* ------------------------------- claims ------------------------------- *)

\* the step answers a request of route op
Answers(op) == resp'.n # resp.n /\ resp'.op = op

AddedIds == {r.id : r \in added}

\* no write has happened since the Stats request that resp answers began
UndisturbedStats == statsWatch.n = resp.n /\ ~statsWatch.dirty

KnownCategories == {"space", "quantum", "ai", "database"}

\* a successful Add echoes the submitted fields under an id no stored
\* record ever had
AddEchoesUnderFreshId ==
    [][ (Answers("add") /\ resp'.status = 200) =>
          /\ resp'.body.title = resp'.req.title
          /\ resp'.body.category = resp'.req.category
          /\ resp'.body.description = resp'.req.description
          /\ resp'.body.findings = resp'.req.findings
          /\ resp'.body.id \notin everIds ]_vars

\* a List response holds each record an Add returned, once, unless a Delete
\* of its id succeeded
ListHoldsAdded ==
    (resp.op = "list" /\ resp.status = 200) =>
        \A r \in added :
            CopiesIn(r.id, okDeletes) = 0 =>
                /\ Cardinality({i \in DOMAIN resp.body : resp.body[i].id = r.id}) = 1
                /\ \E i \in DOMAIN resp.body : resp.body[i] = r

\* C1: every successful Add returns a record that echoes the four submitted
\* fields and whose id differs from the id of every record stored before,
\* and a later List (no Delete of that id having succeeded) contains exactly
\* one record with that id, holding those field values.
C1_AddThenList == AddEchoesUnderFreshId /\ []ListHoldsAdded

C1_Witness ==
    /\ resp.op = "list" /\ resp.status = 200 /\ Len(resp.body) > 1
    /\ \E r \in added : \E i \in DOMAIN resp.body : resp.body[i] = r

\* C2: among the Delete requests for an id a prior Add returned that the data
\* layer answers, the first returns the confirmation carrying the id, every
\* later one returns 404, and no id is confirmed deleted twice.
C2_DeleteOnce ==
    /\ [][ (Answers("delete") /\ resp'.upstream = "ok" /\ resp'.req \in AddedIds) =>
             IF CopiesIn(resp'.req, okDeletes) = 0
             THEN resp'.status = 200 /\ resp'.body.id = resp'.req
             ELSE resp'.status = 404 ]_vars
    /\ [](\A id \in AddedIds : CopiesIn(id, okDeletes) <= 1)

C2_Witness ==
    /\ resp.op = "delete" /\ resp.status = 404
    /\ resp.req \in AddedIds /\ CopiesIn(resp.req, okDeletes) = 1

\* C3: in every reachable state no two stored records have the same id.
C3_UniqueIds ==
    \A i, j \in DOMAIN store : i # j => store[i].id # store[j].id

C3_Witness ==
    /\ \E s \in Servers : seedResult[s] = "inserted"
    /\ \E r \in added : r.id \in IdsOf(store)
    /\ okDeletes # EmptyBag

\* C4: when no write has happened since a Stats request began, the
\* total_research it returned is the number of records List returns.
C4_TotalIsListLength ==
    (resp.op = "stats" /\ resp.status = 200 /\ UndisturbedStats) =>
        resp.body.total_research = Len(get_research_data(store, "ok").response.body)

C4_Witness ==
    /\ resp.op = "stats" /\ resp.status = 200 /\ UndisturbedStats
    /\ resp.body.total_research > 4
    /\ \E i \in DOMAIN store : store[i].category \notin KnownCategories

\* C5: a startup whose count finds the collection empty goes on to insert,
\* and its insert appends exactly 4 records, one per category of space,
\* quantum, ai and database, so that on a collection still empty List has 4
\* items, the total count is 4 and each category count is 1; a startup whose
\* count finds a record inserts nothing and leaves the collection unchanged.
C5_Seeding ==
    /\ [][ \A s \in Servers :
             /\ (pc[s] = "init" /\ pc'[s] # "init" /\ seedResult'[s] # "error") =>
                    /\ store' = store
                    /\ IF Len(store) = 0
                       THEN pc'[s] = "insert"
                       ELSE pc'[s] = "serving" /\ seedResult'[s] = "skipped"
             /\ (pc[s] = "insert" /\ seedResult'[s] = "inserted") =>
                    /\ Len(store') = Len(store) + 4
                    /\ \A i \in DOMAIN store : store'[i] = store[i]
                    /\ \A c \in KnownCategories :
                           Cardinality({i \in (Len(store) + 1)..Len(store') :
                                           store'[i].category = c}) = 1
                    /\ store = <<>> =>
                           /\ Len(get_research_data(store', "ok").response.body) = 4
                           /\ count_documents(store', {}) = 4
                           /\ \A c \in KnownCategories :
                                  count_documents(store', {<<"category", c>>}) = 1 ]_vars
    /\ [](\A s \in Servers : seedResult[s] = "skipped" => pc[s] = "serving")

C5_Witness ==
    /\ \E s \in Servers : seedResult[s] = "inserted"
    /\ nreq = 0 /\ Len(store) = 4

\* C6: a Delete the data layer answers, for an id that matches no stored
\* record, returns 404 (not 500) and leaves the stored records unchanged.
C6_DeleteMissing ==
    [][ (Answers("delete") /\ resp'.upstream = "ok" /\ resp'.req \notin IdsOf(store)) =>
          (resp'.status = 404 /\ store' = store) ]_vars

C6_Witness ==
    /\ resp.op = "delete" /\ resp.status = 404 /\ resp.req = 0
    /\ Len(store) > 0

CategorySum(body) ==
    body.categories.space + body.categories.quantum
        + body.categories.ai + body.categories.database

\* C7: a Stats result no single state of the store yields (the category
\* counts sum to more than total_research) is returned only when a write
\* interleaved with the request's count queries; the witness is such a result.
C7_StatsNotAtomic ==
    (resp.op = "stats" /\ resp.status = 200
        /\ CategorySum(resp.body) > resp.body.total_research) => ~UndisturbedStats

C7_Witness ==
    /\ resp.op = "stats" /\ resp.status = 200
    /\ CategorySum(resp.body) > resp.body.total_research

\* C8: a request whose data-layer or LLM call raises, or whose insert is not
\* confirmed, ends with a 500 response after that one call: nothing is
\* stored, no further count query of a Stats request runs, and the chat
\* message was sent once; and only such a request ends with 500.
C8_FailureIsTerminal ==
    /\ [](/\ resp.upstream \in {"raise", "unconfirmed"} => resp.status = 500
          /\ resp.status = 500 =>
                /\ resp.upstream \in {"raise", "unconfirmed"}
                /\ resp.op \in {"list", "add", "delete"} => resp.calls = 1
                /\ resp.op = "stats" =>
                       /\ resp.calls \in 1..Len(StatsFilters)
                       /\ ~(stats.active /\ stats.n = resp.n)
                /\ resp.op = "chat" =>
                       /\ Cardinality({i \in DOMAIN llmLog : llmLog[i].n = resp.n}) = 1
                       /\ \A k \in Slots : ~(asks[k].active /\ asks[k].n = resp.n))
    /\ [][ (resp'.n # resp.n /\ resp'.status = 500) =>
             (store' = store /\ llmLog' = llmLog) ]_vars

C8_Witness ==
    /\ resp.op = "add" /\ resp.upstream = "unconfirmed" /\ resp.status = 500
    /\ llmLog # <<>>

\* C9: every context the provider is sent holds the system prompt and the one
\* user message of its own request and nothing else, whatever was asked or
\* answered before or meanwhile; a successful call returns the reply as is.
C9_FreshContext ==
    /\ \A i \in DOMAIN llmLog :
          LET m == llmLog[i].messages
          IN /\ Len(m) = 2
             /\ m[1] = [role |-> "system", content |-> SystemMessage]
             /\ m[2].role = "user"
             /\ \A k \in Slots :
                    (asks[k].active /\ asks[k].n = llmLog[i].n) =>
                        m[2].content = asks[k].message
             /\ (resp.op = "chat" /\ resp.n = llmLog[i].n) => m[2].content = resp.req
    /\ (resp.op = "chat" /\ resp.status = 200) =>
          (resp.upstream \in Replies /\ resp.body = [response |-> resp.upstream])

C9_Witness ==
    /\ Len(llmLog) = 3
    /\ resp.op = "chat" /\ resp.status = 200
    /\ \E k \in Slots : asks[k].active /\ asks[k].message # resp.req

\* C10: Categories answers with the same four entries, space, quantum, ai
\* and database in that order, whatever the store holds, and leaves the
\* store unchanged.
C10_CategoriesFixed ==
    [][ Answers("categories") =>
          /\ resp'.status = 200
          /\ resp'.body.categories = <<
                 [id |-> "space", name |-> "Space Research",
                  description |-> "Space exploration and satellite technology"],
                 [id |-> "quantum", name |-> "Quantum Theory",
                  description |-> "Quantum computing and quantum mechanics"],
                 [id |-> "ai", name |-> "AI Programming",
                  description |-> "Artificial intelligence and machine learning"],
                 [id |-> "database", name |-> "Database Technology",
                  description |-> "Data management and analytics"] >>
          /\ store' = store ]_vars

C10_Witness ==
    /\ resp.op = "categories" /\ resp.status = 200
    /\ added # {} /\ okDeletes # EmptyBag

\* titles of the four sample records
SampleTitles == {sample_data[i].title : i \in DOMAIN sample_data}

\* number of stored records that are copies of the sample titled t
Copies(t) == Cardinality({i \in DOMAIN store : store[i].title = t})

\* C11: once every startup has ended, none of them on a data-layer error,
\* the collection that began empty holds exactly one copy of each of the
\* four sample records, however the startups' count and insert steps and
\* the Add requests interleaved.
C11_SeededExactlyOnce ==
    (\A s \in DOMAIN pc : pc[s] = "serving" /\ seedResult[s] # "error") =>
        \A t \in SampleTitles : Copies(t) = 1

====
